---- MODULE Spec2Model ----
(***************************************************************************)
(* The page-mutation state machine of src/App.tsx: the React state of the  *)
(* App component, its event handlers, and the asynchronous continuations   *)
(* of those handlers (one step per await that a promise settles).          *)
(*                                                                         *)
(* The PDF engine (./utils/pdfUtils) is an external collaborator: its      *)
(* functions are modelled from the specification's operation table; every  *)
(* engine call may also reject.                                            *)
(*                                                                         *)
(* metadataModalOpen and editorModalOpen only decide whether a dialog is   *)
(* drawn; no handler reads them, and they are left out of the state.       *)
(* The handlers do not test `loading`, so they can be invoked in any state.*)
(***************************************************************************)
EXTENDS Integers, Sequences, FiniteSets

\* ---------------------------------------------------------------- bounds
\* Handlers that start asynchronous work, over a whole run.
MaxOps == 3
\* Handlers whose promise has not settled, at any one time.
MaxTasks == 2

\* A handler invocation is named by its number in the order of invocation.
Ops == 1..MaxOps

\* ------------------------------------------------------------- documents
\* A page: the page of an uploaded file it comes from, plus what has been
\* baked into it by applyFiltersToPage / addTextToPage.
Page(src) == [src |-> src, fx |-> FALSE, tx |-> FALSE]

\* Uint8Array | null.  kind "pdf" parses; kind "junk" does not.
NULL == [kind |-> "null", pg |-> <<>>, title |-> ""]
Pdf(pg, title) == [kind |-> "pdf", pg |-> pg, title |-> title]
Junk == [kind |-> "junk", pg |-> <<>>, title |-> ""]

\* The File objects a user can pick.
Files ==
    { [name |-> "a.pdf", bytes |-> Pdf(<<Page(1), Page(2)>>, "")],
      [name |-> "b.pdf", bytes |-> Pdf(<<Page(3)>>, "")],
      [name |-> "x.bin", bytes |-> Junk] }

NoFile == [name |-> "", bytes |-> NULL]

\* The titles a user can type into the metadata dialog.
Titles == {"X"}

\* ------------------------------------------------------ the PDF engine
RemoveAt(s, i) == SubSeq(s, 1, i - 1) \o SubSeq(s, i + 1, Len(s))
InsertAt(s, i, x) == SubSeq(s, 1, i - 1) \o <<x>> \o SubSeq(s, i, Len(s))

pageCountOf(d) == Len(d.pg)
InRange(d, i) == d.kind = "pdf" /\ 0 <= i /\ i < pageCountOf(d)

\* One rendered preview (a data URL) of one page.
renderPageToDataURL(p) == [img |-> p.src, fx |-> p.fx, tx |-> p.tx]

\* getPdfDetails(bytes).thumbnails: one thumbnail per page, in page order.
Thumbnails(d) == [i \in 1..Len(d.pg) |-> renderPageToDataURL(d.pg[i])]
CanParse(d) == d.kind = "pdf"

mergePdfs(a, b) == Pdf(a.pg \o b.pg, a.title)
CanMerge(a, b) == a.kind = "pdf" /\ b.kind = "pdf"

movePage(d, from, to) ==
    Pdf(InsertAt(RemoveAt(d.pg, from + 1), to + 1, d.pg[from + 1]), d.title)
CanMove(d, from, to) == InRange(d, from) /\ InRange(d, to)

removePage(d, i) == Pdf(RemoveAt(d.pg, i + 1), d.title)

updateMetadata(d, m) == Pdf(d.pg, m)

applyFiltersToPage(d, i) == Pdf([d.pg EXCEPT ![i + 1].fx = TRUE], d.title)

addTextToPage(d, i) == Pdf([d.pg EXCEPT ![i + 1].tx = TRUE], d.title)

getMetadata(d) == [title |-> d.title]
NoMetadata == [title |-> "none"]

\* ------------------------------------------------------------ the state
VARIABLES
    pdfBytes,           \* useState<Uint8Array | null>
    fileName,           \* useState<string>
    pages,              \* useState<string[]>: the thumbnails
    loading,            \* useState(false): the in-flight flag
    loadingText,        \* useState('')
    currentMetadata,
    selectedPageIndex,  \* number | null, null is -1
    task,               \* the handler invocations, by number
    nOps,               \* handlers started so far
    pagesOf,            \* history: the bytes `pages` was projected from
    origin              \* history: the name of the upload pdfBytes derives from

vars == <<pdfBytes, fileName, pages, loading, loadingText, currentMetadata,
          selectedPageIndex, task, nOps, pagesOf, origin>>

NoIndex == -1

\* A handler invocation.  pc is the await it is suspended at:
\*   "read"   file.arrayBuffer()
\*   "engine" the engine's mutation call (or getMetadata)
\*   "proj"   getPdfDetails inside loadPdf
\*   "fin"    loadPdf has returned, the handler's own finally has not run
\*   "done"   settled (the record is kept until the next handler starts)
IdleTask ==
    [pc |-> "idle", op |-> "none", pre |-> NULL, prePages |-> <<>>,
     file |-> NoFile, a |-> NoIndex, b |-> NoIndex, meta |-> "",
     bytes |-> NULL, out |-> "none", alert |-> "none", ov |-> {},
     preOrigin |-> ""]

\* The record kept of a settled invocation: which handler, on which snapshot
\* and page, how it ended, what it alerted, which invocations it overlapped.
Settle(r, pc, out, alert) ==
    [IdleTask EXCEPT !.pc = pc, !.op = r.op, !.pre = r.pre, !.a = r.a,
                     !.b = r.b, !.meta = r.meta, !.bytes = r.bytes,
                     !.out = out, !.alert = alert, !.ov = r.ov]

Active(t) == task[t].pc \in {"read", "engine", "proj", "fin"}
\* An engine call or a thumbnail projection (or a file read) is pending.
Pending(t) == task[t].pc \in {"read", "engine", "proj"}
Mutating(t) == Active(t) /\ task[t].op # "getmeta"

ActiveOps == {t \in Ops : Active(t)}
MutatingOps == {t \in Ops : Mutating(t)}

CanStart == nOps < MaxOps /\ Cardinality(ActiveOps) < MaxTasks

\* The record of a handler that has passed its precondition checks, with the
\* values of the render it closes over.
NewTask(op, pc) ==
    [IdleTask EXCEPT !.pc = pc, !.op = op, !.pre = pdfBytes,
                     !.prePages = pages, !.ov = MutatingOps,
                     !.preOrigin = origin]

\* Record r is invocation nOps + 1; the settled records are forgotten; every
\* mutation pending at that moment has now overlapped with r.
Started(r) ==
    /\ task' = [t \in Ops |->
                  IF t = nOps + 1 THEN r
                  ELSE IF ~Active(t) THEN IdleTask
                  ELSE IF Mutating(t) /\ r.op \notin {"getmeta", "save"}
                       THEN [task[t] EXCEPT !.ov = @ \cup {nOps + 1}]
                       ELSE task[t]]
    /\ nOps' = nOps + 1

Init ==
    /\ pdfBytes = NULL
    /\ fileName = ""
    /\ pages = <<>>
    /\ loading = FALSE
    /\ loadingText = ""
    /\ currentMetadata = NoMetadata
    /\ selectedPageIndex = NoIndex
    /\ task = [t \in Ops |-> IdleTask]
    /\ nOps = 0
    /\ pagesOf = NULL
    /\ origin = ""

\* ------------------------------------------------------------- loadPdf
\* loadPdf(bytes) up to its await: the flag, the label and the NEW bytes are
\* set before getPdfDetails is called.
loadPdf(t, bytes) ==
    /\ loading' = TRUE
    /\ loadingText' = "Processing PDF..."
    /\ pdfBytes' = bytes
    /\ origin' = IF task[t].op = "upload" THEN task[t].file.name
                  ELSE task[t].preOrigin
    /\ task' = [task EXCEPT ![t].pc = "proj", ![t].bytes = bytes]

\* Where a handler is once loadPdf has returned: handleMovePage and
\* handleDeletePage still have a finally block to run.
AfterLoadPdf(op) == IF op \in {"move", "delete"} THEN "fin" ELSE "done"

\* Mutant of getPdfDetailsResolved: the thumbnails are not installed.
getPdfDetailsResolved_NoSetPages(t) ==
    /\ task[t].pc = "proj"
    /\ CanParse(task[t].bytes)
    /\ loading' = FALSE
    /\ task' = [task EXCEPT ![t] = Settle(@, AfterLoadPdf(@.op), "ok", "none")]
    /\ UNCHANGED <<pdfBytes, fileName, pages, loadingText, currentMetadata,
                   selectedPageIndex, nOps, pagesOf, origin>>

\* getPdfDetails resolved: setPages(thumbnails); finally setLoading(false).
getPdfDetailsResolved(t) ==
    /\ task[t].pc = "proj"
    /\ CanParse(task[t].bytes)
    /\ pages' = Thumbnails(task[t].bytes)
    /\ pagesOf' = task[t].bytes
    /\ loading' = FALSE
    /\ task' = [task EXCEPT ![t] = Settle(@, AfterLoadPdf(@.op), "ok", "none")]
    /\ UNCHANGED <<pdfBytes, fileName, loadingText, currentMetadata,
                   selectedPageIndex, nOps, origin>>

\* getPdfDetails rejected: catch: alert('Error loading PDF'); finally
\* setLoading(false).  pdfBytes keeps the bytes set before the await.
getPdfDetailsRejected(t) ==
    /\ task[t].pc = "proj"
    /\ loading' = FALSE
    /\ task' = [task EXCEPT ![t] = Settle(@, AfterLoadPdf(@.op), "projFail",
                                           "Error loading PDF")]
    /\ UNCHANGED <<pdfBytes, fileName, pages, loadingText, currentMetadata,
                   selectedPageIndex, nOps, pagesOf, origin>>

\* The finally block of handleMovePage / handleDeletePage after loadPdf.
handlerFinally(t) ==
    /\ task[t].pc = "fin"
    /\ loading' = FALSE
    /\ task' = [task EXCEPT ![t].pc = "done"]
    /\ UNCHANGED <<pdfBytes, fileName, pages, loadingText, currentMetadata,
                   selectedPageIndex, nOps, pagesOf, origin>>

\* ------------------------------------------------------- handler entry
handleFileUpload(f) ==
    /\ CanStart
    /\ loading' = TRUE
    /\ loadingText' = "Loading file..."
    /\ Started([NewTask("upload", "read") EXCEPT !.file = f])
    /\ UNCHANGED <<pdfBytes, fileName, pages, currentMetadata,
                   selectedPageIndex, pagesOf, origin>>

\* Mutant of handleMerge: the `if (!pdfBytes) return` guard is missing.
handleMerge_NoGuard(f) ==
    /\ CanStart
    /\ loading' = TRUE
    /\ loadingText' = "Merging PDFs..."
    /\ Started([NewTask("merge", "read") EXCEPT !.file = f])
    /\ UNCHANGED <<pdfBytes, fileName, pages, currentMetadata,
                   selectedPageIndex, pagesOf, origin>>

handleMerge(f) ==
    IF pdfBytes = NULL THEN UNCHANGED vars
    ELSE /\ CanStart
         /\ loading' = TRUE
         /\ loadingText' = "Merging PDFs..."
         /\ Started([NewTask("merge", "read") EXCEPT !.file = f])
         /\ UNCHANGED <<pdfBytes, fileName, pages, currentMetadata,
                        selectedPageIndex, pagesOf, origin>>

\* The guard compares `to` with the number of THUMBNAILS.
handleMovePage(from, to) ==
    IF pdfBytes = NULL \/ to < 0 \/ to >= Len(pages) THEN UNCHANGED vars
    ELSE /\ CanStart
         /\ loading' = TRUE
         /\ loadingText' = "Reordering..."
         /\ Started([NewTask("move", "engine") EXCEPT !.a = from, !.b = to])
         /\ UNCHANGED <<pdfBytes, fileName, pages, currentMetadata,
                        selectedPageIndex, pagesOf, origin>>

handleDeletePage(index) ==
    IF pdfBytes = NULL THEN UNCHANGED vars
    ELSE /\ CanStart
         /\ loading' = TRUE
         /\ loadingText' = "Deleting page..."
         /\ Started([NewTask("delete", "engine") EXCEPT !.a = index])
         /\ UNCHANGED <<pdfBytes, fileName, pages, currentMetadata,
                        selectedPageIndex, pagesOf, origin>>

\* Hands a Blob of pdfBytes to the browser under the name edited_<fileName>;
\* no React state is written.  It is synchronous: its record is settled at
\* once and holds what was handed over.
handleSave ==
    IF pdfBytes = NULL THEN UNCHANGED vars
    ELSE /\ nOps < MaxOps
         /\ Started([NewTask("save", "done") EXCEPT
                        !.bytes = pdfBytes,
                        !.file = [name |-> "edited_" \o fileName,
                                  bytes |-> pdfBytes],
                        !.out = "ok", !.ov = {}])
         /\ UNCHANGED <<pdfBytes, fileName, pages, loading, loadingText,
                        currentMetadata, selectedPageIndex, pagesOf, origin>>

\* Mutant of openMetadata: it raises the in-flight flag like the mutations.
openMetadata_SetsLoading ==
    IF pdfBytes = NULL THEN UNCHANGED vars
    ELSE /\ CanStart
         /\ loading' = TRUE
         /\ Started(NewTask("getmeta", "engine"))
         /\ UNCHANGED <<pdfBytes, fileName, pages, loadingText,
                        currentMetadata, selectedPageIndex, pagesOf, origin>>

\* No setLoading and no try/catch.
openMetadata ==
    IF pdfBytes = NULL THEN UNCHANGED vars
    ELSE /\ CanStart
         /\ Started(NewTask("getmeta", "engine"))
         /\ UNCHANGED <<pdfBytes, fileName, pages, loading, loadingText,
                        currentMetadata, selectedPageIndex, pagesOf, origin>>

\* Sets the flag but no label of its own.
saveMetadata(newMeta) ==
    IF pdfBytes = NULL THEN UNCHANGED vars
    ELSE /\ CanStart
         /\ loading' = TRUE
         /\ Started([NewTask("setmeta", "engine") EXCEPT !.meta = newMeta])
         /\ UNCHANGED <<pdfBytes, fileName, pages, loadingText,
                        currentMetadata, selectedPageIndex, pagesOf, origin>>

openEditor(index) ==
    /\ selectedPageIndex' = index
    /\ UNCHANGED <<pdfBytes, fileName, pages, loading, loadingText,
                   currentMetadata, task, nOps, pagesOf, origin>>

handleApplyFilters ==
    IF pdfBytes = NULL \/ selectedPageIndex = NoIndex THEN UNCHANGED vars
    ELSE /\ CanStart
         /\ loading' = TRUE
         /\ loadingText' = "Applying edits..."
         /\ Started([NewTask("filters", "engine") EXCEPT !.a = selectedPageIndex])
         /\ UNCHANGED <<pdfBytes, fileName, pages, currentMetadata,
                        selectedPageIndex, pagesOf, origin>>

handleAddText ==
    IF pdfBytes = NULL \/ selectedPageIndex = NoIndex THEN UNCHANGED vars
    ELSE /\ CanStart
         /\ loading' = TRUE
         /\ loadingText' = "Adding text..."
         /\ Started([NewTask("text", "engine") EXCEPT !.a = selectedPageIndex])
         /\ UNCHANGED <<pdfBytes, fileName, pages, currentMetadata,
                        selectedPageIndex, pagesOf, origin>>

\* ------------------------------------------- continuations of the awaits
\* file.arrayBuffer() resolved, in handleFileUpload and in handleMerge.
\* handleMerge passes the pdfBytes of the render it was invoked in.
arrayBufferResolved(t) ==
    /\ task[t].pc = "read"
    /\ IF task[t].op = "upload"
       THEN /\ fileName' = task[t].file.name
            /\ loadPdf(t, task[t].file.bytes)
       ELSE /\ task' = [task EXCEPT ![t].pc = "engine"]
            /\ UNCHANGED <<fileName, pdfBytes, loading, loadingText, origin>>
    /\ UNCHANGED <<pages, currentMetadata, selectedPageIndex, nOps, pagesOf>>

\* The alert of a handler's catch block; "none" where it only logs.
CatchAlert(op) ==
    CASE op = "upload" -> "Failed to load file"
      [] op = "merge" -> "Failed to merge PDF"
      [] op = "setmeta" -> "Failed to save metadata"
      [] op = "filters" -> "Failed to apply changes"
      [] op = "text" -> "Failed to add text"
      [] OTHER -> "none"

\* Mutant of arrayBufferRejected: the catch block does not clear the flag.
arrayBufferRejected_NoClear(t) ==
    /\ task[t].pc = "read"
    /\ task' = [task EXCEPT ![t] = Settle(@, "done", "readFail", CatchAlert(@.op))]
    /\ UNCHANGED <<pdfBytes, fileName, pages, loading, loadingText,
                   currentMetadata, selectedPageIndex, nOps, pagesOf, origin>>

\* file.arrayBuffer() rejected: catch: alert; setLoading(false).
arrayBufferRejected(t) ==
    /\ task[t].pc = "read"
    /\ loading' = FALSE
    /\ task' = [task EXCEPT ![t] = Settle(@, "done", "readFail", CatchAlert(@.op))]
    /\ UNCHANGED <<pdfBytes, fileName, pages, loadingText, currentMetadata,
                   selectedPageIndex, nOps, pagesOf, origin>>

\* Mutant of EngineResult: the delete removes the page after the given one.
EngineResult_DeleteNext(r) ==
    CASE r.op = "merge" -> mergePdfs(r.pre, r.file.bytes)
      [] r.op = "move" -> movePage(r.pre, r.a, r.b)
      [] r.op = "delete" -> removePage(r.pre, (r.a + 1) % pageCountOf(r.pre))
      [] r.op = "setmeta" -> updateMetadata(r.pre, r.meta)
      [] r.op = "filters" -> applyFiltersToPage(r.pre, r.a)
      [] r.op = "text" -> addTextToPage(r.pre, r.a)
      [] OTHER -> r.pre

\* What the engine call of record r resolves to, and whether it can resolve.
EngineResult(r) ==
    CASE r.op = "merge" -> mergePdfs(r.pre, r.file.bytes)
      [] r.op = "move" -> movePage(r.pre, r.a, r.b)
      [] r.op = "delete" -> removePage(r.pre, r.a)
      [] r.op = "setmeta" -> updateMetadata(r.pre, r.meta)
      [] r.op = "filters" -> applyFiltersToPage(r.pre, r.a)
      [] r.op = "text" -> addTextToPage(r.pre, r.a)
      [] OTHER -> r.pre

EngineAccepts(r) ==
    CASE r.op = "merge" -> CanMerge(r.pre, r.file.bytes)
      [] r.op = "move" -> CanMove(r.pre, r.a, r.b)
      [] r.op \in {"delete", "filters", "text"} -> InRange(r.pre, r.a)
      [] OTHER -> r.pre.kind = "pdf"

\* The engine call resolved.  saveMetadata installs the bytes itself and
\* clears the flag; openMetadata opens the dialog; the others call loadPdf.
engineResolved(t) ==
    /\ task[t].pc = "engine"
    /\ EngineAccepts(task[t])
    /\ CASE task[t].op = "setmeta" ->
              /\ pdfBytes' = EngineResult(task[t])
              /\ origin' = task[t].preOrigin
              /\ loading' = FALSE
              /\ task' = [task EXCEPT ![t] = Settle([task[t] EXCEPT !.bytes = EngineResult(task[t])],
                                                     "done", "ok", "none")]
              /\ UNCHANGED <<loadingText, currentMetadata>>
         [] task[t].op = "getmeta" ->
              /\ currentMetadata' = getMetadata(task[t].pre)
              /\ task' = [task EXCEPT ![t] = Settle(@, "done", "ok", "none")]
              /\ UNCHANGED <<pdfBytes, loading, loadingText, origin>>
         [] OTHER ->
              /\ loadPdf(t, EngineResult(task[t]))
              /\ UNCHANGED <<currentMetadata>>
    /\ UNCHANGED <<fileName, pages, selectedPageIndex, nOps, pagesOf>>

\* The engine call rejected.  handleMovePage / handleDeletePage only log;
\* openMetadata has no catch at all and leaves the flag alone.
engineRejected(t) ==
    /\ task[t].pc = "engine"
    /\ loading' = IF task[t].op = "getmeta" THEN loading ELSE FALSE
    /\ task' = [task EXCEPT ![t] = Settle(@, "done", "engineFail", CatchAlert(@.op))]
    /\ UNCHANGED <<pdfBytes, fileName, pages, loadingText, currentMetadata,
                   selectedPageIndex, nOps, pagesOf, origin>>

\* ------------------------------------------------------------ the system
\* A PageCard exists for each thumbnail; its buttons pass its own index.
CardIndexes == 0..(Len(pages) - 1)
MoveTargets(from) == {from - 1, from + 1}

Next ==
    \/ \E f \in Files : handleFileUpload(f)
    \/ \E f \in Files : handleMerge(f)
    \/ \E from \in CardIndexes : \E to \in MoveTargets(from) : handleMovePage(from, to)
    \/ \E i \in CardIndexes : handleDeletePage(i)
    \/ handleSave
    \/ openMetadata
    \/ \E m \in Titles : saveMetadata(m)
    \/ \E i \in CardIndexes : openEditor(i)
    \/ handleApplyFilters
    \/ handleAddText
    \/ \E t \in Ops : arrayBufferResolved(t)
    \/ \E t \in Ops : arrayBufferRejected(t)
    \/ \E t \in Ops : engineResolved(t)
    \/ \E t \in Ops : engineRejected(t)
    \/ \E t \in Ops : getPdfDetailsResolved(t)
    \/ \E t \in Ops : getPdfDetailsRejected(t)
    \/ \E t \in Ops : handlerFinally(t)

Spec == Init /\ [][Next]_vars

\* Every pending promise eventually settles (no engine call or file read
\* hangs), and a continuation that is ready to run does run.
Continue(t) ==
    \/ arrayBufferResolved(t)
    \/ arrayBufferRejected(t)
    \/ engineResolved(t)
    \/ engineRejected(t)
    \/ getPdfDetailsResolved(t)
    \/ getPdfDetailsRejected(t)
    \/ handlerFinally(t)

FairSpec == Spec /\ \A t \in Ops : WF_vars(Continue(t))

\* The runs in which the user starts an operation only when none is in
\* flight, and every file read, engine call and projection succeeds.
Quiet == ActiveOps = {}

SeqNext ==
    \/ Quiet /\ \E f \in Files : handleFileUpload(f)
    \/ Quiet /\ \E f \in Files : handleMerge(f)
    \/ Quiet /\ \E from \in CardIndexes : \E to \in MoveTargets(from) : handleMovePage(from, to)
    \/ Quiet /\ \E i \in CardIndexes : handleDeletePage(i)
    \/ Quiet /\ handleSave
    \/ Quiet /\ openMetadata
    \/ Quiet /\ \E m \in Titles : saveMetadata(m)
    \/ Quiet /\ \E i \in CardIndexes : openEditor(i)
    \/ Quiet /\ handleApplyFilters
    \/ Quiet /\ handleAddText
    \/ \E t \in Ops : arrayBufferResolved(t)
    \/ \E t \in Ops : engineResolved(t)
    \/ \E t \in Ops : getPdfDetailsResolved(t)
    \/ \E t \in Ops : handlerFinally(t)

SeqSpec == Init /\ [][SeqNext]_vars

\* ================================================================ claims
PendingMutations == {t \in Ops : Pending(t) /\ task[t].op # "getmeta"}
Failed(t) == task[t].out \in {"readFail", "engineFail", "projFail"}

\* C1: in a run of non-overlapping operations in which every engine call and
\* every projection succeeds, whenever no operation is in flight the number
\* of thumbnails equals the page count of the current Document.
C1_ThumbnailCount ==
    Quiet => Len(pages) = pageCountOf(pdfBytes)

\* C1 witness: a delete has settled successfully on a loaded document.
C1_Witness ==
    /\ Quiet
    /\ pdfBytes # NULL
    /\ \E t \in Ops : task[t].pc = "done" /\ task[t].op = "delete" /\ task[t].out = "ok"
    /\ Len(pages) = pageCountOf(pdfBytes)

\* C2: there is no state in which the projection of an operation (one that
\* overlapped no other) is pending, pdfBytes already is the new Document of
\* that operation, and pages still holds the thumbnails of the previous one.
C2_AtomicAdoption ==
    ~ \E t \in Ops :
        /\ task[t].pc = "proj"
        /\ task[t].ov = {}
        /\ task[t].pre.kind = "pdf"
        /\ pdfBytes = task[t].bytes
        /\ pdfBytes # task[t].pre
        /\ pages = Thumbnails(task[t].pre)
        /\ pages # Thumbnails(pdfBytes)

\* C3: when the projection of an operation that overlapped no other has
\* failed, the current Document is the one from before the operation.
C3_ProjectionFailureKeepsDocument ==
    \A t \in Ops :
        (task[t].out = "projFail" /\ task[t].ov = {}) => pdfBytes = task[t].pre

\* C4: the step in which a mutation's engine call rejects leaves pdfBytes and
\* pages as they were when the handler started, and the flag false.
C4_EngineFailureRestores ==
    [][\A t \in Ops :
          (task[t].pc = "engine" /\ task[t].op # "getmeta"
             /\ task'[t].out = "engineFail")
          => (pdfBytes' = task[t].pre /\ pages' = task[t].prePages
                /\ loading' = FALSE)]_vars

\* C5: every operation that settled after a failed call raised an alert.
C5_FailureAlerts ==
    \A t \in Ops : (task[t].pc = "done" /\ Failed(t)) => task[t].alert # "none"

C7_OneMutationInFlight ==
    Cardinality(MutatingOps) <= 1

\* C8: the flag is true whenever a file read, engine call or projection of a
\* mutating operation is pending.
C8_FlagWhilePending ==
    PendingMutations # {} => loading

\* C9: the flag is false whenever no operation is pending, and (every promise
\* settling eventually) a raised flag is always eventually cleared.
C9_FlagCleared ==
    /\ [](PendingMutations = {} => ~loading)
    /\ (loading ~> ~loading)

\* C9 witness: an operation has ended on a failure path, nothing is pending
\* and the flag is down.
C9_Witness ==
    /\ PendingMutations = {}
    /\ ~loading
    /\ \E t \in Ops : task[t].pc = "done" /\ Failed(t) /\ task[t].op # "getmeta"

\* C10: every reorder that issued an engine call had a destination inside
\* [0, pageCount) of the Document it was invoked on.
C10_OutOfRangeReorderIsNoOp ==
    \A t \in Ops :
        task[t].op = "move" => InRange(task[t].pre, task[t].b)

\* C11: in a run of non-overlapping, successful operations, whenever no
\* operation is in flight the thumbnails in `pages` were projected from the
\* Document now in pdfBytes (the projector ran after the last mutation).
C11_ProjectorAfterEveryMutation ==
    Quiet => pagesOf = pdfBytes

\* C12: a step taken by Export (handleSave) or by Get metadata (openMetadata:
\* its start, the resolution or the rejection of its engine call) leaves the
\* Document, the thumbnails, the file name and the in-flight flag unchanged,
\* whatever else is in flight.
C12_ReadOnlyOperations ==
    [][(\E t \in Ops : /\ task'[t].op \in {"save", "getmeta"}
                       /\ task'[t] # task[t])
          => UNCHANGED <<pdfBytes, pages, fileName, loading>>]_vars

\* C12 witness: while a mutation holds the flag up, a get-metadata has failed
\* and an export has been handed over.
C12_Witness ==
    /\ loading
    /\ \E t \in Ops : /\ task[t].op = "getmeta" /\ task[t].pc = "done"
                      /\ task[t].out = "engineFail"
    /\ \E s \in Ops : task[s].op = "save" /\ task[s].bytes = pdfBytes

\* C13: after a successful delete of index i on a settled N-page Document D
\* (operations not overlapping), the Document has N-1 pages, the thumbnails
\* are N-1, and at every index j the page and the thumbnail are those of
\* D's index j+1 when j >= i and of D's index j when j < i.
C13_DeleteShiftsPages ==
    \A t \in Ops :
        ( /\ task[t].op = "delete" /\ task[t].out = "ok"
          /\ task[t].pc \in {"fin", "done"} /\ task[t].ov = {} )
        => LET D == task[t].pre
               i == task[t].a
               N == pageCountOf(D)
               former(j) == IF j >= i THEN j + 1 ELSE j
           IN /\ pageCountOf(pdfBytes) = N - 1
              /\ Len(pages) = N - 1
              /\ \A j \in 0..(N - 2) :
                    /\ pdfBytes.pg[j + 1] = D.pg[former(j) + 1]
                    /\ pages[j + 1] = renderPageToDataURL(D.pg[former(j) + 1])

\* C13 witness: page 0 of a two-page Document has been deleted; what is left
\* at index 0 is the former page 1.
C13_Witness ==
    \E t \in Ops :
        /\ task[t].op = "delete" /\ task[t].out = "ok" /\ task[t].pc = "done"
        /\ task[t].a = 0 /\ pageCountOf(task[t].pre) = 2
        /\ pdfBytes.pg = <<task[t].pre.pg[2]>>
        /\ Len(pages) = 1

\* C14: the step in which a merge adopts its result installs a Document
\* whose pages are the pages of the Document current at that moment followed
\* by the pages of the uploaded file.
C14_MergeUsesCurrentDocument ==
    [][\A t \in Ops :
          ( /\ task[t].op = "merge" /\ task[t].pc = "engine"
            /\ task'[t].pc = "proj" )
          => pdfBytes'.pg = pdfBytes.pg \o task[t].file.bytes.pg]_vars

\* C15: once saveMetadata(M) has settled successfully, and until the next
\* handler is invoked, the Document an openMetadata would read carries M:
\* getMetadata of the current Document returns the title given in M.  (No
\* upload has replaced the Document meanwhile.)
C15_MetadataRoundTrip ==
    \A t \in Ops :
        ( /\ task[t].op = "setmeta" /\ task[t].pc = "done"
          /\ task[t].out = "ok"
          /\ \A s \in Ops : task[s].op # "upload" )
        => getMetadata(NewTask("getmeta", "engine").pre).title = task[t].meta

\* The mutations that install their result through loadPdf.
LoadPdfOps == {"merge", "move", "delete", "filters", "text"}

\* C16: when two mutations were started from the same Document snapshot,
\* overlapped only each other, both succeeded and both have settled, the
\* Document and the thumbnails both are the result of one and the same of
\* the two operations.
C16_LastResolverWinsWhole ==
    \A s, t \in Ops :
        ( /\ s < t
          /\ task[s].pc = "done" /\ task[t].pc = "done"
          /\ task[s].op \in LoadPdfOps /\ task[t].op \in LoadPdfOps
          /\ task[s].out = "ok" /\ task[t].out = "ok"
          /\ task[s].pre = task[t].pre
          /\ task[s].ov = {t} /\ task[t].ov = {s}
          /\ ActiveOps = {} )
        => \E k \in {s, t} :
              /\ pdfBytes = task[k].bytes
              /\ pages = Thumbnails(task[k].bytes)

\* The status label a handler sets for itself ("" where it sets none).
LoadingLabel(op) ==
    CASE op = "upload" -> "Loading file..."
      [] op = "merge" -> "Merging PDFs..."
      [] op = "move" -> "Reordering..."
      [] op = "delete" -> "Deleting page..."
      [] op = "filters" -> "Applying edits..."
      [] op = "text" -> "Adding text..."
      [] OTHER -> ""

\* C17: in a run of non-overlapping, successful operations, whenever the
\* flag is up the label is the one of an operation in flight: its own label,
\* or the projection label while its projection is pending.
C17_LabelNamesOperationInFlight ==
    loading =>
        \E t \in MutatingOps :
            \/ LoadingLabel(task[t].op) # "" /\ loadingText = LoadingLabel(task[t].op)
            \/ task[t].pc = "proj" /\ loadingText = "Processing PDF..."

\* The operations that require a current Document.
DocumentOps ==
    {"merge", "move", "delete", "save", "getmeta", "setmeta", "filters", "text"}

\* C18: no operation that requires a Document ever got past its guard while
\* pdfBytes was null, and no apply-filters / add-text while no page was
\* selected: every record of such an operation (the only source of engine
\* calls and of writes to the flag and the label) was started on a Document,
\* and for filters / text on a selected page.
C18_GuardedHandlersAreNoOps ==
    \A t \in Ops :
        /\ task[t].op \in DocumentOps => task[t].pre # NULL
        /\ task[t].op \in {"filters", "text"} => task[t].a # NoIndex

\* C18 witness: an upload has failed at the file read, so no Document is
\* loaded and no page is selected; the handlers have been invokable since,
\* and the flag is down with no record of a Document operation.
C18_Witness ==
    /\ pdfBytes = NULL
    /\ selectedPageIndex = NoIndex
    /\ ~loading
    /\ \E t \in Ops : task[t].op = "upload" /\ task[t].out = "readFail"
    /\ \A t \in Ops : task[t].op \notin DocumentOps

\* C19: whenever a Document is loaded, fileName is the name of the upload
\* the current pdfBytes was derived from, and every export handed over the
\* current bytes under "edited_" followed by that name.
C19_FileNameOfCurrentDocument ==
    /\ pdfBytes # NULL => fileName = origin
    /\ \A t \in Ops :
          task[t].op = "save"
          => /\ task[t].file.bytes = task[t].pre
             /\ task[t].file.name = "edited_" \o task[t].preOrigin

\* C20: in a run of non-overlapping, successful operations, whenever nothing
\* is in flight (and the last operation was not an upload) a selected page
\* index is in range for the current Document and for the thumbnail list
\* (the editor's pages[selectedPageIndex] lookup), and every index handed to the engine by reorder, delete,
\* apply-filters or add-text was in range for the Document passed with it.
C20_PageIndexInRange ==
    /\ ( /\ Quiet /\ selectedPageIndex # NoIndex
         /\ \A t \in Ops : task[t].op # "upload" )
          => /\ InRange(pdfBytes, selectedPageIndex)
             /\ selectedPageIndex < Len(pages)
    /\ \A t \in Ops :
          task[t].op \in {"move", "delete", "filters", "text"}
          => InRange(task[t].pre, task[t].a)

====
